---- MODULE Spec2Model ----
(***************************************************************************)
(* The segment muxer of libavformat/segment.c as a state machine.          *)
(*                                                                         *)
(* One action per muxer callback: seg_write_header (open_session),         *)
(* seg_write_packet (submit) and seg_write_trailer (close_session).  Each  *)
(* callback is computed as a function on a "world" record holding the      *)
(* SegmentContext, the inner AVFormatContext, the sinks and the files.     *)
(* Calls into the I/O layer and the container writer can fail: the fault   *)
(* input of an action names the call that fails in this invocation.        *)
(* Undefined behaviour (use of the freed inner context, close of a handle  *)
(* that is not open, reads outside the reserved valid-frames storage) is a *)
(* choice between the outcomes a build can show: the process dies at that  *)
(* point, or it goes on with the stale contents / an arbitrary value.      *)
(***************************************************************************)
EXTENDS Integers, Sequences, FiniteSets, TLC

VARIABLES cfg, seg, oc, files, playlist, phase, ret, obs, last

vars == <<cfg, seg, oc, files, playlist, phase, ret, obs, last>>

----------------------------------------------------------------------------
(* Bounds of the model *)

MaxPackets == 4      \* submit calls per session
MaxPts     == 6      \* packet timestamps range over 0..MaxPts stream ticks
MaxGarbage == 3      \* values an out-of-storage read can yield: 0..MaxGarbage

(* Program constants *)

AV_TIME_BASE == 1000000       \* AV_TIME_BASE_Q = 1/1000000
ENOMEM == 12
EINVAL == 22
EIO    == 5                   \* the errno the I/O layer and writers report
MUXER_NOT_FOUND == 1000       \* stands for -AVERROR_MUXER_NOT_FOUND

AVERROR(e) == 0 - e

Max(a, b) == IF a >= b THEN a ELSE b

----------------------------------------------------------------------------
(* Configuration: the private options, the input streams, the inner format *)

VideoStream == [codec_type |-> "video", time_base |-> <<1, 2>>]
AudioStream == [codec_type |-> "audio", time_base |-> <<1, 3>>]

StreamSets == { <<VideoStream>>, <<AudioStream>>, <<VideoStream, AudioStream>> }

\* the inner container format: whether it has a trailer step and private data
Formats == { [write_trailer |-> TRUE,  priv_data_size |-> 1],
             [write_trailer |-> FALSE, priv_data_size |-> 0] }

\* segment_valid_frames texts, as character strings; NoString is the unset option
NoString == << "NULL" >>
ValidFramesStrings ==
    { NoString,
      << "2" >>,
      << "0" >>,
      << "1", ",", "3" >>,
      << "0", ",", "2" >>,
      << "1", ",", "2", ",", "3" >>,
      << "2", ",", "1" >>,
      << "1", ",", "1" >> }

SegmentTimes == {1, 2}          \* segment_time, seconds
ListSizes    == {0, 1, 2}       \* segment_list_size
Wraps        == {0, 1, 2, 3}    \* segment_wrap

\* the configurations explored: every combination of wrap, duration, streams
\* and format without playlist and frame list; every frame list with and
\* without playlist; every playlist size and wrap
TimeConfigs ==
    [ list : {FALSE}, size : {0}, wrap : Wraps, time : SegmentTimes,
      valid_frames_str : {NoString}, streams : StreamSets, oformat : Formats ]

FrameConfigs ==
    [ list : BOOLEAN, size : {0}, wrap : {0}, time : {1},
      valid_frames_str : ValidFramesStrings \ {NoString},
      streams : { <<VideoStream>>, <<VideoStream, AudioStream>> },
      oformat : { [write_trailer |-> TRUE, priv_data_size |-> 1] } ]

ListConfigs ==
    [ list : {TRUE}, size : ListSizes, wrap : Wraps, time : {1},
      valid_frames_str : {NoString}, streams : { <<VideoStream>> },
      oformat : Formats ]

Configs == TimeConfigs \cup FrameConfigs \cup ListConfigs

----------------------------------------------------------------------------
(* parse_valid_frames: count the delimiters, reserve storage, tokenise and  *)
(* convert each token, reject a value that does not exceed its predecessor  *)

Digits == << "0", "1", "2", "3", "4", "5", "6", "7", "8", "9" >>

DigitValue(c) == (CHOOSE d \in DOMAIN Digits : Digits[d] = c) - 1

\* the loop of lines 60-63: the number of ',' characters of the text
CountDelimiters(str) == Cardinality({ k \in DOMAIN str : str[k] = "," })

\* av_strtok(str, ",", &p) called until it returns NULL: the maximal runs of
\* non-delimiter characters, in order (empty tokens are skipped)
RECURSIVE Tokens(_, _)
Tokens(str, cur) ==
    IF str = << >>
    THEN IF cur = << >> THEN << >> ELSE << cur >>
    ELSE IF Head(str) = ","
         THEN (IF cur = << >> THEN << >> ELSE << cur >>) \o Tokens(Tail(str), << >>)
         ELSE Tokens(Tail(str), Append(cur, Head(str)))

\* strtol(frame, NULL, 10) on a token of decimal digits
RECURSIVE strtol(_, _)
strtol(tok, acc) ==
    IF tok = << >> THEN acc
    ELSE strtol(Tail(tok), 10 * acc + DigitValue(Head(tok)))

\* the while loop of lines 74-85 over the tokens not yet converted: arr holds the
\* entries written so far; the result is the array and the return value
RECURSIVE ParseLoop(_, _)
ParseLoop(toks, arr) ==
    IF toks = << >> THEN [valid_frames |-> arr, ret |-> 0]
    ELSE LET v    == strtol(Head(toks), 0)
             arr1 == Append(arr, v)
         IN IF Len(arr) > 0 /\ v <= arr[Len(arr)]
            THEN [valid_frames |-> arr1, ret |-> AVERROR(EINVAL)]
            ELSE ParseLoop(Tail(toks), arr1)

\* parse_valid_frames(log_ctx, &valid_frames, valid_frames_str, &nb_valid_frames):
\* nb is the count reported, alloc the number of entries reserved (-1: no
\* array), valid_frames the entries written (entry k of the array is
\* valid_frames[k+1]; the entries from alloc on lie outside the storage)
parse_valid_frames(str, f) ==
    LET i == CountDelimiters(str)
    IN IF f = "realloc"
       THEN [nb |-> i + 1, alloc |-> 0 - 1, valid_frames |-> << >>,
             ret |-> AVERROR(ENOMEM)]
       ELSE LET r == ParseLoop(Tokens(str, << >>), << >>)
            IN [nb |-> i + 1, alloc |-> i, valid_frames |-> r.valid_frames,
                ret |-> r.ret]

\* av_get_frame_filename(buf, size, pattern, number) for a pattern ending in
\* %03d: the decimal digits of number, zero padded to three places
Filename(number) ==
    << Digits[((number \div 100) % 10) + 1],
       Digits[((number \div 10) % 10) + 1],
       Digits[(number % 10) + 1] >>

\* av_compare_ts(ts_a, tb_a, ts_b, tb_b): the sign of ts_a*tb_a - ts_b*tb_b
av_compare_ts(ts_a, tb_a, ts_b, tb_b) ==
    LET a == tb_a[1] * tb_b[2]
        b == tb_b[1] * tb_a[2]
    IN IF ts_a * a < ts_b * b THEN 0 - 1
       ELSE IF ts_a * a > ts_b * b THEN 1 ELSE 0

----------------------------------------------------------------------------
(* The world a callback works on.                                           *)
(*   seg       the SegmentContext; seg.pb is the playlist handle            *)
(*   oc        the inner AVFormatContext; oc.mem tells whether it is        *)
(*             allocated, oc.pb is the segment handle                       *)
(*   files     the segments started so far, in order; the last one is the   *)
(*             one oc.pb refers to                                          *)
(*   playlist  the lines of the playlist file                               *)
(*   obs       what an observer of the run has seen: the most segment sinks *)
(*             open at one instant, a close of a handle that was not open,  *)
(*             a use of the freed context, an access outside the            *)
(*             valid-frames storage, the submit calls made, the call whose  *)
(*             failure made a callback return an error first                *)
(*   ret       the value the callback is about to return                    *)
(*   fired     the call that failed in this invocation, if any              *)
(*   split     the split verdict of this invocation (can_split)             *)
(*   ubn       the undefined operations of this invocation so far           *)
(*   oobn      the reads outside the valid-frames storage, likewise         *)
(*   crashed   the process died in this invocation                          *)
(* A handle is "null" (never opened), "open" or "closed" (a dangling        *)
(* pointer to a closed sink).                                               *)

World == [seg |-> seg, oc |-> oc, files |-> files, playlist |-> playlist,
          obs |-> obs, ret |-> ret, split |-> FALSE, fired |-> "none",
          ubn |-> 0, oobn |-> 0, crashed |-> FALSE]

\* the undefined-behaviour inputs of one invocation: which undefined operation
\* (if any) kills the process, and what a read outside the storage yields
\* what a read outside the storage yields: the value stored there (Stored) or
\* an arbitrary one
Stored == 0 - 1
Garbage == {Stored} \cup (0..MaxGarbage)

\* an undefined operation: the process dies here when the input says so
Undefined(w, u) ==
    IF w.crashed THEN w
    ELSE [w EXCEPT !.ubn = @ + 1, !.crashed = (w.ubn + 1 = u.crashAt)]

\* a call into the I/O layer, the allocator or the writer fails with error e
Fails(w, f, e) == [w EXCEPT !.ret = e, !.fired = f]

OpenCount(fs) == Cardinality({ k \in DOMAIN fs : fs[k].open })

\* avio_open2(&oc->pb, oc->filename, AVIO_FLAG_WRITE, ...) succeeding
OpenSegmentSink(w) ==
    LET fs == Append(w.files,
                     [name |-> w.oc.filename, header |-> FALSE, pkts |-> << >>,
                      first |-> "none", trailer |-> "none", open |-> TRUE])
    IN [w EXCEPT !.oc.pb = "open", !.files = fs,
                 !.obs.maxOpen = Max(@, OpenCount(fs))]

\* avio_close(oc->pb)
CloseSegmentSink(w, u) ==
    IF w.crashed THEN w
    ELSE IF w.oc.pb = "open"
         THEN [w EXCEPT !.oc.pb = "closed", !.files[Len(w.files)].open = FALSE]
         ELSE Undefined([w EXCEPT !.obs.badClose = TRUE], u)

\* avio_open2(&seg->pb, seg->list, AVIO_FLAG_WRITE, ...) succeeding: the file is
\* created or truncated
OpenListSink(w) ==
    [w EXCEPT !.seg.pb = "open", !.playlist = << >>]

\* avio_close(seg->pb)
CloseListSink(w, u) ==
    IF w.crashed THEN w
    ELSE IF w.seg.pb = "open"
         THEN [w EXCEPT !.seg.pb = "closed"]
         ELSE Undefined([w EXCEPT !.obs.badClose = TRUE], u)

\* avio_printf(seg->pb, "%s\n", oc->filename); avio_flush(seg->pb)
PrintListEntry(w) ==
    IF w.crashed THEN w
    ELSE [w EXCEPT !.playlist = Append(@, w.oc.filename)]

\* oc->streams = NULL; oc->nb_streams = 0; avformat_free_context(oc)
FreeContext(w, u) ==
    IF w.crashed THEN w
    ELSE IF w.oc.mem = "live"
         THEN [w EXCEPT !.oc.mem = "freed", !.oc.streams = FALSE,
                        !.oc.priv_data = FALSE]
         ELSE Undefined([w EXCEPT !.obs.uaf = TRUE], u)

----------------------------------------------------------------------------
(* segment_start and segment_end *)

\* (mutant) the index is not wrapped before it names the segment
segment_start_NoWrap(w, f, u) ==
    LET n  == w.seg.number
        w1 == [w EXCEPT !.seg.number = n + 1]
    IN IF f = "get_filename" THEN Fails(w1, f, AVERROR(EINVAL))
       ELSE LET w2 == [w1 EXCEPT !.oc.filename = Filename(n)]
            IN IF f = "seg_open" THEN Fails(w2, f, AVERROR(EIO))
               ELSE
    LET w3   == OpenSegmentSink(w2)
        need == ~w3.oc.priv_data /\ cfg.oformat.priv_data_size > 0
    IN IF need /\ f = "mallocz"
       THEN Fails(CloseSegmentSink(w3, u), f, AVERROR(ENOMEM))
       ELSE LET w4 == IF need THEN [w3 EXCEPT !.oc.priv_data = TRUE] ELSE w3
            IN IF f = "write_header"
               THEN Fails([CloseSegmentSink(w4, u) EXCEPT !.oc.priv_data = FALSE],
                          f, AVERROR(EIO))
               ELSE [w4 EXCEPT !.files[Len(w4.files)].header = TRUE, !.ret = 0]

\* (mutant) a failure after the sink was opened returns without the fail: label
segment_start_NoCleanup(w, f, u) ==
    LET n  == IF cfg.wrap # 0 THEN w.seg.number % cfg.wrap ELSE w.seg.number
        w1 == [w EXCEPT !.seg.number = n + 1]
    IN IF f = "get_filename" THEN Fails(w1, f, AVERROR(EINVAL))
       ELSE LET w2 == [w1 EXCEPT !.oc.filename = Filename(n)]
            IN IF f = "seg_open" THEN Fails(w2, f, AVERROR(EIO))
               ELSE
    LET w3   == OpenSegmentSink(w2)
        need == ~w3.oc.priv_data /\ cfg.oformat.priv_data_size > 0
    IN IF need /\ f = "mallocz"
       THEN Fails(CloseSegmentSink(w3, u), f, AVERROR(ENOMEM))
       ELSE LET w4 == IF need THEN [w3 EXCEPT !.oc.priv_data = TRUE] ELSE w3
            IN IF f = "write_header"
               THEN Fails(w4, f, AVERROR(EIO))
               ELSE [w4 EXCEPT !.files[Len(w4.files)].header = TRUE, !.ret = 0]

segment_start(w, f, u) ==
    LET n  == IF cfg.wrap # 0 THEN w.seg.number % cfg.wrap ELSE w.seg.number
        w1 == [w EXCEPT !.seg.number = n + 1]
    IN IF f = "get_filename" THEN Fails(w1, f, AVERROR(EINVAL))
       ELSE LET w2 == [w1 EXCEPT !.oc.filename = Filename(n)]
            IN IF f = "seg_open" THEN Fails(w2, f, AVERROR(EIO))
               ELSE
    LET w3   == OpenSegmentSink(w2)
        need == ~w3.oc.priv_data /\ cfg.oformat.priv_data_size > 0
    IN IF need /\ f = "mallocz"
       THEN Fails(CloseSegmentSink(w3, u), f, AVERROR(ENOMEM))
       ELSE LET w4 == IF need THEN [w3 EXCEPT !.oc.priv_data = TRUE] ELSE w3
            IN IF f = "write_header"
               THEN Fails([CloseSegmentSink(w4, u) EXCEPT !.oc.priv_data = FALSE],
                          f, AVERROR(EIO))
               ELSE [w4 EXCEPT !.files[Len(w4.files)].header = TRUE, !.ret = 0]

\* (mutant) the sink is left open when the trailer has been written
segment_end_NoClose(w, f, u) ==
    LET r  == IF cfg.oformat.write_trailer /\ f = "write_trailer"
              THEN AVERROR(EIO) ELSE 0
        w1 == IF ~cfg.oformat.write_trailer \/ w.oc.pb # "open" THEN w
              ELSE [w EXCEPT !.files[Len(w.files)].trailer =
                                IF r = 0 THEN "written" ELSE "failed"]
    IN [w1 EXCEPT !.oc.priv_data = FALSE, !.ret = r,
                  !.fired = IF r # 0 THEN f ELSE @]

\* (mutant) a failed trailer write returns at once
segment_end_ReturnOnTrailerError(w, f, u) ==
    LET r  == IF cfg.oformat.write_trailer /\ f = "write_trailer"
              THEN AVERROR(EIO) ELSE 0
        w1 == IF ~cfg.oformat.write_trailer THEN w
              ELSE IF w.oc.pb = "open"
                   THEN [w EXCEPT !.files[Len(w.files)].trailer =
                                     IF r = 0 THEN "written" ELSE "failed"]
                   ELSE Undefined(w, u)
        w2 == IF r # 0 THEN w1 ELSE CloseSegmentSink(w1, u)
    IN IF w2.crashed THEN w2
       ELSE [w2 EXCEPT !.oc.priv_data = IF r # 0 THEN @ ELSE FALSE, !.ret = r,
                       !.fired = IF r # 0 THEN f ELSE @]

segment_end(w, f, u) ==
    LET r  == IF cfg.oformat.write_trailer /\ f = "write_trailer"
              THEN AVERROR(EIO) ELSE 0
        w1 == IF ~cfg.oformat.write_trailer THEN w
              ELSE IF w.oc.pb = "open"
                   THEN [w EXCEPT !.files[Len(w.files)].trailer =
                                     IF r = 0 THEN "written" ELSE "failed"]
                   ELSE Undefined(w, u)   \* trailer written through a closed handle
        w2 == CloseSegmentSink(w1, u)
    IN IF w2.crashed THEN w2
       ELSE [w2 EXCEPT !.oc.priv_data = FALSE, !.ret = r,
                       !.fired = IF r # 0 THEN f ELSE @]

----------------------------------------------------------------------------
(* The valid-frames array as the code reads it *)

\* seg->valid_frames[k]: the entry written there when k lies inside the
\* reserved storage; outside it (or where nothing was written) the value read is
\* the one stored or an arbitrary one
ReadValidFrame(w, k, u) ==
    LET written == k < Len(w.seg.valid_frames)
    IN IF written /\ (k < w.seg.vf_alloc \/ u.garbage = Stored)
       THEN w.seg.valid_frames[k + 1]
       ELSE IF u.garbage = Stored THEN 0 ELSE u.garbage

\* the access itself: outside the storage it is recorded as such
TouchValidFrame(w, k) ==
    IF k < w.seg.vf_alloc /\ k < Len(w.seg.valid_frames) THEN w
    ELSE [w EXCEPT !.obs.oob = TRUE, !.oobn = @ + 1]

----------------------------------------------------------------------------
(* seg_write_header *)

\* the fail: label of seg_write_header for ret # 0
HeaderFail(w, u) ==
    LET w1 == FreeContext(w, u)
    IN IF cfg.list THEN CloseListSink(w1, u) ELSE w1

\* lines 175-187: parse the list and place the cursor
HeaderValidFrames(w, f, u) ==
    LET p  == parse_valid_frames(cfg.valid_frames_str, f)
        w1 == [w EXCEPT !.seg.nb_valid_frames = p.nb,
                        !.seg.valid_frames = p.valid_frames,
                        !.seg.vf_alloc = p.alloc,
                        !.obs.oob = @ \/ (p.alloc >= 0 /\ Len(p.valid_frames) > p.alloc),
                        !.ret = p.ret,
                        !.fired = IF f = "realloc" THEN f ELSE @]
    IN IF p.ret < 0 THEN w1
       ELSE LET w2  == TouchValidFrame(w1, 0)
                idx == IF ReadValidFrame(w2, 0, u) # 0 THEN 0 ELSE 1
                w3  == TouchValidFrame(w2, idx)
            IN [w3 EXCEPT !.seg.next_valid_frame_index = idx,
                          !.seg.next_valid_frame = ReadValidFrame(w3, idx, u)]

CountVideo(streams) ==
    Cardinality({ k \in DOMAIN streams : streams[k].codec_type = "video" })

\* lines 189-246, entered with the context allocated and ret holding the last
\* result
HeaderOpenSegment(w, f, u) ==
    LET w1 == [w EXCEPT !.seg.has_video = @ + CountVideo(cfg.streams)]
    IN IF f = "guess_format"
       THEN HeaderFail(Fails(w1, f, 0 - MUXER_NOT_FOUND), u)
       ELSE IF f = "nofile"
       THEN HeaderFail(Fails(w1, f, AVERROR(EINVAL)), u)
       ELSE
    LET w2 == [w1 EXCEPT !.oc.streams = TRUE, !.seg.number = @ + 1]
    IN IF f = "get_filename"
       THEN HeaderFail(Fails(w2, f, AVERROR(EINVAL)), u)
       ELSE
    LET w3 == [w2 EXCEPT !.oc.filename = Filename(w1.seg.number)]
    IN IF f = "seg_open"
       THEN HeaderFail(Fails(w3, f, AVERROR(EIO)), u)
       ELSE
    LET w4 == [OpenSegmentSink(w3) EXCEPT
                   !.oc.priv_data = (cfg.oformat.priv_data_size > 0)]
    IN IF f = "write_header"
       THEN HeaderFail(Fails(CloseSegmentSink(w4, u), f, AVERROR(EIO)), u)
       ELSE
    LET w5 == [w4 EXCEPT !.files[Len(w4.files)].header = TRUE, !.ret = 0]
    IN IF cfg.list THEN PrintListEntry(w5) ELSE w5

seg_write_header(w, f, u) ==
    LET w0 == [w EXCEPT !.seg.number = 0,
                        !.seg.recording_time = cfg.time * AV_TIME_BASE,
                        !.seg.nb_valid_frames = 0,
                        !.seg.frame_count = 0]
    IN IF f = "alloc_context" THEN Fails(w0, f, AVERROR(ENOMEM))
       ELSE
    LET w1 == [w0 EXCEPT !.oc.mem = "live"]
    IN IF cfg.list /\ f = "list_open"
       THEN HeaderFail(Fails(w1, f, AVERROR(EIO)), u)
       ELSE
    LET w2 == IF cfg.list THEN OpenListSink(w1) ELSE w1
        w3 == IF cfg.valid_frames_str # NoString
              THEN HeaderValidFrames(w2, f, u) ELSE w2
    IN IF cfg.valid_frames_str # NoString /\ w3.ret < 0
       THEN w3                                 \* line 177: return ret
       ELSE HeaderOpenSegment(w3, f, u)

----------------------------------------------------------------------------
(* seg_write_packet *)

Packets(streams) ==
    [stream_index : DOMAIN streams, pts : 0..MaxPts, key : BOOLEAN]

IsVideo(pkt) == cfg.streams[pkt.stream_index].codec_type = "video"

\* lines 256-260
KeyFrameTest(w, pkt) ==
    w.seg.has_video # 0 /\ IsVideo(pkt) /\ pkt.key

\* (mutant) the boundary taken one segment too early
TimeTest_PreviousBoundary(w, pkt) ==
    LET end_pts == w.seg.recording_time * (w.seg.number - 1)
    IN ~(av_compare_ts(pkt.pts, cfg.streams[pkt.stream_index].time_base,
                       end_pts, <<1, AV_TIME_BASE>>) < 0)

\* line 254 and line 262: the packet has reached end_pts
TimeTest(w, pkt) ==
    LET end_pts == w.seg.recording_time * w.seg.number
    IN ~(av_compare_ts(pkt.pts, cfg.streams[pkt.stream_index].time_base,
                       end_pts, <<1, AV_TIME_BASE>>) < 0)

\* lines 266-269: move the cursor
AdvanceCursor(w, u) ==
    IF w.seg.next_valid_frame < w.seg.frame_count
       /\ w.seg.next_valid_frame_index + 1 < w.seg.nb_valid_frames
    THEN LET idx == w.seg.next_valid_frame_index + 1
             w1  == TouchValidFrame(w, idx)
         IN [w1 EXCEPT !.seg.next_valid_frame_index = idx,
                       !.seg.next_valid_frame = ReadValidFrame(w1, idx, u)]
    ELSE w

\* line 270
FrameTest(w) == w.seg.next_valid_frame = w.seg.frame_count

\* the fail: label of seg_write_packet
PacketFail(w, u) ==
    IF w.crashed \/ ~(w.ret < 0) THEN w
    ELSE LET w1 == [w EXCEPT !.oc.streams = FALSE]
             w2 == IF cfg.list THEN CloseListSink(w1, u) ELSE w1
         IN FreeContext(w2, u)

\* lines 287-296: record the new segment and rotate the list
RecordSegment(w, f, u) ==
    IF ~cfg.list THEN w
    ELSE LET w1 == PrintListEntry(w)
         IN IF cfg.size # 0 /\ w1.seg.number % cfg.size = 0
            THEN LET w2 == CloseListSink(w1, u)
                 IN IF w2.crashed THEN w2
                    ELSE IF f = "list_open" THEN Fails(w2, f, AVERROR(EIO))
                    ELSE OpenListSink(w2)
            ELSE w1

\* (mutant) the next segment is started before the current one is ended
Rotate_StartFirst(w, f, u) ==
    LET w1 == segment_start(w, f, u)
        w2 == IF w1.crashed \/ w1.ret # 0 THEN w1
              ELSE [segment_end([w1 EXCEPT !.files = w.files, !.oc.pb = w.oc.pb],
                                f, u)
                    EXCEPT !.files = @ \o << w1.files[Len(w1.files)] >>,
                           !.oc.pb = "open", !.oc.priv_data = w1.oc.priv_data]
    IN IF w2.crashed \/ w2.ret # 0 THEN w2 ELSE RecordSegment(w2, f, u)

\* lines 274-297: the rotation
Rotate(w, f, u) ==
    LET w1 == segment_end(w, f, u)
        w2 == IF w1.crashed \/ w1.ret # 0 THEN w1 ELSE segment_start(w1, f, u)
    IN IF w2.crashed \/ w2.ret # 0 THEN w2 ELSE RecordSegment(w2, f, u)

\* lines 299-302: count the frame and hand the packet to the writer
WritePacket(w, pkt, id, f) ==
    LET w1 == IF IsVideo(pkt) THEN [w EXCEPT !.seg.frame_count = @ + 1] ELSE w
        k  == Len(w1.files)
    IN IF f = "write_packet" THEN Fails(w1, f, AVERROR(EIO))
       ELSE [w1 EXCEPT !.ret = 0,
                       !.files[k].pkts = Append(@, id),
                       !.files[k].first =
                           IF w1.files[k].pkts # << >> THEN @
                           ELSE IF IsVideo(pkt) /\ pkt.key THEN "video_key"
                           ELSE "other"]

\* the split verdict of lines 256-272, on the world with the cursor moved
CanSplit(w, pkt) ==
    /\ KeyFrameTest(w, pkt)
    /\ TimeTest(w, pkt)
    /\ (w.seg.nb_valid_frames # 0 => FrameTest(w))

\* (mutant) the packet is handed to the writer before the rotation
seg_write_packet_WriteBeforeRotate(w, pkt, id, f, u) ==
    IF w.oc.mem # "live"
    THEN [w EXCEPT !.obs.uaf = TRUE, !.crashed = TRUE]
    ELSE
    LET w1 == IF w.seg.nb_valid_frames # 0 THEN AdvanceCursor(w, u) ELSE w
        wp == WritePacket(w1, pkt, id, f)
        w2 == IF wp.ret # 0 \/ ~CanSplit(w1, pkt) THEN wp
              ELSE Rotate([wp EXCEPT !.split = TRUE], f, u)
    IN IF w2.crashed THEN w2 ELSE PacketFail(w2, u)

seg_write_packet(w, pkt, id, f, u) ==
    IF w.oc.mem # "live"
    THEN \* seg->avf dangles; oc->streams, if still readable, was set to NULL
         \* before the free: st = oc->streams[...] cannot be read
         [w EXCEPT !.obs.uaf = TRUE, !.crashed = TRUE]
    ELSE
    LET w1 == IF w.seg.nb_valid_frames # 0 THEN AdvanceCursor(w, u) ELSE w
        w2 == IF CanSplit(w1, pkt)
              THEN Rotate([w1 EXCEPT !.split = TRUE], f, u)
              ELSE [w1 EXCEPT !.ret = 0]
    IN IF w2.crashed THEN w2
       ELSE IF w2.ret # 0 THEN PacketFail(w2, u)
       ELSE PacketFail(WritePacket(w2, pkt, id, f), u)

----------------------------------------------------------------------------
(* seg_write_trailer *)

\* (mutant) the playlist is not closed
seg_write_trailer_NoListClose(w, f, u) ==
    LET w0 == IF w.oc.mem = "live" THEN w
              ELSE Undefined([w EXCEPT !.obs.uaf = TRUE], u)
        w1 == IF w0.crashed THEN w0 ELSE segment_end(w0, f, u)
        r  == w1.ret
        w3 == FreeContext(w1, u)
    IN IF w3.crashed THEN w3 ELSE [w3 EXCEPT !.ret = r, !.oc.streams = FALSE]

seg_write_trailer(w, f, u) ==
    LET w0 == IF w.oc.mem = "live" THEN w
              ELSE Undefined([w EXCEPT !.obs.uaf = TRUE], u)
        w1 == IF w0.crashed THEN w0 ELSE segment_end(w0, f, u)
        r  == w1.ret
        w2 == IF cfg.list THEN CloseListSink(w1, u) ELSE w1
        w3 == FreeContext(w2, u)
    IN IF w3.crashed THEN w3 ELSE [w3 EXCEPT !.ret = r, !.oc.streams = FALSE]

----------------------------------------------------------------------------
(* The state machine *)

InitSeg ==
    [number |-> 0, recording_time |-> 0, has_video |-> 0, nb_valid_frames |-> 0,
     valid_frames |-> << >>, vf_alloc |-> 0 - 1, next_valid_frame |-> 0,
     next_valid_frame_index |-> 0, frame_count |-> 0, pb |-> "null"]

InitOc ==
    [mem |-> "none", pb |-> "null", priv_data |-> FALSE, filename |-> << >>,
     streams |-> FALSE]

NoPacket == [stream_index |-> 1, pts |-> 0, key |-> FALSE]

InitRest ==
    /\ seg = InitSeg
    /\ oc = InitOc
    /\ files = << >>
    /\ playlist = << >>
    /\ phase = "idle"
    /\ ret = 0
    /\ obs = [maxOpen |-> 0, badClose |-> FALSE, uaf |-> FALSE, oob |-> FALSE,
              submits |-> 0, failure |-> "none"]
    /\ last = [op |-> "none", phase |-> "idle", fault |-> "none", pkt |-> NoPacket,
               split |-> FALSE, number |-> 0, started |-> 0, frame_count |-> 0]

Init == cfg \in Configs /\ InitRest

HeaderFaults == {"none", "alloc_context", "list_open", "realloc", "guess_format",
                 "nofile", "get_filename", "seg_open", "write_header"}
PacketFaults == {"none", "write_trailer", "get_filename", "seg_open", "mallocz",
                 "write_header", "list_open", "write_packet"}
TrailerFaults == {"none", "write_trailer"}

\* the inputs that decide undefined behaviour, for a callback run(_) : the
\* values a read outside the storage can yield when the callback makes one, and
\* the undefined operation at which the process dies (0: none)
UBInputs(dry) ==
    [crashAt : 0..dry.ubn,
     garbage : IF dry.oobn > 0 THEN Garbage ELSE {Stored}]

NoUB == [crashAt |-> 0, garbage |-> Stored]

\* the callback's result becomes the state
Commit(r, op, pkt, ph) ==
    /\ seg' = r.seg
    /\ oc' = r.oc
    /\ files' = r.files
    /\ playlist' = r.playlist
    /\ obs' = [r.obs EXCEPT !.failure =
                   IF @ = "none" /\ ~r.crashed /\ r.ret < 0 THEN r.fired ELSE @]
    /\ ret' = IF r.crashed THEN ret ELSE r.ret
    /\ phase' = IF r.crashed THEN "crashed" ELSE ph
    /\ last' = [op |-> op, phase |-> phase, fault |-> r.fired, pkt |-> pkt,
                split |-> r.split,
                number |-> seg.number, started |-> Len(files),
                frame_count |-> seg.frame_count]
    /\ UNCHANGED cfg

\* the calls that can fail in a run of seg_write_packet, given its run
\* without fault: those of the rotation only when the packet splits
PacketFaultsOf(dry) ==
    IF dry.crashed /\ dry.ubn = 0 THEN {"none"}
    ELSE IF dry.split \/ dry.oobn > 0 THEN PacketFaults
    ELSE {"none", "write_packet"}

OpenSession ==
    /\ phase = "idle"
    /\ \E f \in HeaderFaults :
         \E u \in UBInputs(seg_write_header(World, f, NoUB)) :
           LET r == seg_write_header(World, f, u)
           IN Commit(r, "open", NoPacket,
                     IF r.ret = 0 THEN "live" ELSE "openfail")

Submit ==
    /\ phase \in {"live", "failed"}
    /\ obs.submits < MaxPackets
    /\ \E pkt \in Packets(cfg.streams) :
         LET w  == [World EXCEPT !.obs.submits = @ + 1]
             id == obs.submits + 1
         IN \E f \in PacketFaultsOf(seg_write_packet(w, pkt, id, "none", NoUB)) :
              \E u \in UBInputs(seg_write_packet(w, pkt, id, f, NoUB)) :
                LET r == seg_write_packet(w, pkt, id, f, u)
                IN Commit(r, "submit", pkt,
                          IF r.ret < 0 THEN "failed" ELSE phase)

CloseSession ==
    /\ phase \in {"live", "failed"}
    /\ \E f \in TrailerFaults :
         \E u \in UBInputs(seg_write_trailer(World, f, NoUB)) :
           LET r == seg_write_trailer(World, f, u)
           IN Commit(r, "close", NoPacket, "closed")

Next == OpenSession \/ Submit \/ CloseSession

Spec == Init /\ [][Next]_vars

----------------------------------------------------------------------------
(* Properties *)

HasVideoStream == \E k \in DOMAIN cfg.streams : cfg.streams[k].codec_type = "video"

\* the last operation was a submit that performed a rotation (segment_end, then
\* segment_start unless the end failed)
Rotated == last.op = "submit" /\ last.split

\* the timestamp of the last packet, in seconds, is at least segment_time * n
Reached(n) ==
    LET tb == cfg.streams[last.pkt.stream_index].time_base
    IN last.pkt.pts * tb[1] >= cfg.time * n * tb[2]

LastIsVideo == cfg.streams[last.pkt.stream_index].codec_type = "video"

\* C1: with a video stream, no valid-frames list and segment_wrap = 0, a
\* rotation happens only on a video key-frame packet whose timestamp is at
\* least segment_time * N, N the number of segments started before it.
C1_RotationOnlyAtKeyFrameAfterBoundary ==
    (HasVideoStream /\ cfg.valid_frames_str = NoString /\ cfg.wrap = 0 /\ Rotated)
        => (LastIsVideo /\ last.pkt.key /\ Reached(last.started))

C1_Witness ==
    /\ HasVideoStream /\ cfg.valid_frames_str = NoString /\ cfg.wrap = 0
    /\ Rotated /\ last.started = 2 /\ phase = "live" /\ Len(cfg.streams) = 2

\* C2: with segment_wrap > 0 the boundary of the split test is segment_time
\* times the unwrapped number of segments started, so a rotation never happens
\* on a packet that has not reached segment_time * N.
C2_BoundaryUsesUnwrappedCount ==
    (HasVideoStream /\ cfg.valid_frames_str = NoString /\ cfg.wrap > 0 /\ Rotated)
        => Reached(last.started)

\* the texts' entries as written: the decimal values between the delimiters
ListedFrames ==
    LET toks == Tokens(cfg.valid_frames_str, << >>)
    IN { strtol(toks[k], 0) : k \in DOMAIN toks }

\* C3: with a valid-frames list, every rotation happens on a video packet whose
\* video frame count (video packets submitted before it) is a listed value.
C3_RotationOnlyAtListedFrames ==
    (cfg.valid_frames_str # NoString /\ Rotated)
        => (LastIsVideo /\ last.frame_count \in ListedFrames)

\* C4: without a video stream, a packet whose timestamp has reached
\* segment_time * N closes the current segment and starts the next one.
C4_AudioOnlySplitsAtBoundary ==
    (~HasVideoStream /\ last.op = "submit" /\ last.phase = "live"
       /\ Reached(last.started))
        => last.split

\* C5 as stated: when opening the sink of the next segment fails in a rotation,
\* the previous segment's trailer has been written and its sink closed, no
\* segment sink is open and submit returns a negative error.
C5_StartFailureAfterCleanEnd_AsStated ==
    (last.op = "submit" /\ last.fault = "seg_open")
        => /\ files[Len(files)].trailer = "written"
           /\ ~files[Len(files)].open
           /\ OpenCount(files) = 0 /\ oc.pb # "open"
           /\ phase = "failed" /\ ret < 0

\* C5 (amended): the same, the trailer being written when the container format
\* has a trailer step.
C5_StartFailureAfterCleanEnd ==
    (last.op = "submit" /\ last.fault = "seg_open")
        => /\ cfg.oformat.write_trailer => files[Len(files)].trailer = "written"
           /\ files[Len(files)].trailer # "failed"
           /\ ~files[Len(files)].open
           /\ OpenCount(files) = 0 /\ oc.pb # "open"
           /\ phase = "failed" /\ ret < 0

C5_Witness ==
    /\ last.op = "submit" /\ last.fault = "seg_open" /\ last.started = 2
    /\ cfg.list /\ cfg.oformat.write_trailer

\* C6: at every instant at most one segment sink is open (also inside a
\* rotation), and between the operations of a live session exactly one is.
C6_AtMostOneSegmentSink ==
    /\ obs.maxOpen <= 1
    /\ OpenCount(files) <= 1
    /\ phase = "live" => (OpenCount(files) = 1 /\ oc.pb = "open")

C6_Witness ==
    /\ phase = "live" /\ Rotated /\ Len(files) = 3 /\ obs.maxOpen = 1

\* the calls of segment_start that can fail
StartFaults == {"get_filename", "seg_open", "mallocz", "write_header"}

\* C7: after a submit failed because segment_start failed, every later submit
\* is rejected with an error and touches no writer and no sink.
C7_FailedSessionRejectsSubmit ==
    (last.op = "submit" /\ last.phase = "failed" /\ obs.failure \in StartFaults)
        => (phase = "failed" /\ ret < 0 /\ ~obs.uaf)

C9_ListHoldsLastTwoOfFour ==
    (cfg.list /\ cfg.size = 2 /\ cfg.wrap = 0 /\ phase = "live" /\ Len(files) = 4)
        => playlist = << files[3].name, files[4].name >>

\* C10: with a playlist and segment_list_size > 0, with or without wrap, the
\* playlist holds at most segment_list_size entries whenever open_session or
\* submit returns (stated here for the returns that report success, which the
\* claim includes).
C10_ListBounded ==
    (cfg.list /\ cfg.size > 0 /\ last.op \in {"open", "submit"} /\ phase = "live")
        => Len(playlist) <= cfg.size

\* the index the k-th segment started (k = 0: the one of open_session) is to be
\* named with
NamingIndex(k) == IF cfg.wrap = 0 THEN k ELSE k % cfg.wrap

\* C11: the k-th segment started is named with index k when segment_wrap = 0
\* and with k mod segment_wrap otherwise, for every k.
C11_SegmentNamedByWrappedIndex ==
    \A k \in DOMAIN files : files[k].name = Filename(NamingIndex(k - 1))

C11_Witness ==
    /\ cfg.wrap = 3 /\ Len(files) = 5
    /\ files[4].name = << "0", "0", "0" >> /\ files[5].name = << "0", "0", "1" >>

\* the text's entries in the order written
ListedSeq ==
    LET toks == Tokens(cfg.valid_frames_str, << >>)
    IN [k \in DOMAIN toks |-> strtol(toks[k], 0)]

\* a valid-frames text is configured and its entries ascend strictly
StrictlyAscending ==
    /\ cfg.valid_frames_str # NoString
    /\ \A k \in DOMAIN ListedSeq : k > 1 => ListedSeq[k - 1] < ListedSeq[k]

\* C12: for every strictly ascending list (a one-entry list and a list starting
\* with 0 included) the cursor next_valid_frame_index is a position of the list,
\* 0 <= index < nb_valid_frames, in every state of a session opened with it.
C12_CursorInsideList ==
    (StrictlyAscending /\ phase = "live")
        => /\ 0 <= seg.next_valid_frame_index
           /\ seg.next_valid_frame_index < seg.nb_valid_frames

\* C13: open_session on a valid-frames text that is not strictly ascending (and
\* with no other call failing) returns the configuration error and leaves no
\* partial session: the playlist sink is not open, no segment sink is open and
\* no valid-frames array is retained.
C13_BadListLeavesNothing ==
    (cfg.valid_frames_str # NoString /\ ~StrictlyAscending
        /\ last.op = "open" /\ last.fault = "none")
        => /\ phase = "openfail" /\ ret = AVERROR(EINVAL)
           /\ seg.pb # "open"
           /\ OpenCount(files) = 0
           /\ seg.vf_alloc < 0 /\ seg.valid_frames = << >>

\* C14: when starting a segment fails after its sink was opened (the writer's
\* private state cannot be allocated, or the header write fails), in
\* open_session and in a rotation alike, the error is returned with that sink
\* closed and the writer's private state freed.
C14_FailedStartClosesSink ==
    (last.op \in {"open", "submit"} /\ last.fault \in {"mallocz", "write_header"})
        => /\ ret < 0
           /\ Len(files) = last.started + 1
           /\ ~files[Len(files)].open /\ ~files[Len(files)].header
           /\ oc.pb = "closed"
           /\ ~oc.priv_data

\* a rotation whose header write failed, for a writer with private state
C14_Witness ==
    /\ last.op = "submit" /\ last.fault = "write_header"
    /\ cfg.oformat.priv_data_size > 0
    /\ Len(files) = 2 /\ ~files[2].open

\* C15: parsing a text of n entries reserves storage for exactly n entries, and
\* every index written by the parse or read afterwards lies inside that
\* storage; one-entry lists included.
C15_StorageHoldsEveryEntry ==
    (cfg.valid_frames_str # NoString /\ seg.vf_alloc >= 0)
        => /\ seg.vf_alloc = seg.nb_valid_frames
           /\ ~obs.oob

\* C16: after open_session the cursor stands on the second entry when the first
\* listed frame is 0 and on the first entry otherwise, with next_valid_frame the
\* value listed there; and with a list starting with 0 no rotation happens at
\* video frame count 0.
C16_InitialCursorSkipsZero ==
    /\ (StrictlyAscending /\ last.op = "open" /\ phase = "live")
          => IF ListedSeq[1] = 0
             THEN /\ seg.next_valid_frame_index = 1
                  /\ Len(ListedSeq) >= 2 => seg.next_valid_frame = ListedSeq[2]
             ELSE /\ seg.next_valid_frame_index = 0
                  /\ seg.next_valid_frame = ListedSeq[1]
    /\ (StrictlyAscending /\ ListedSeq[1] = 0 /\ Rotated)
          => last.frame_count # 0

\* the packets written to the segments so far
WrittenPackets ==
    UNION { { files[k].pkts[j] : j \in DOMAIN files[k].pkts } : k \in DOMAIN files }

\* C17: segment_end closes the segment sink and frees the writer's private state
\* whether or not the trailer write succeeded; when the trailer write fails in
\* the rotation of a submit the error is returned, no new segment is started
\* and the packet is not written.
C17_SegmentEndAlwaysCloses ==
    /\ (last.op = "submit" /\ last.fault = "write_trailer")
          => /\ ret < 0 /\ phase = "failed"
             /\ Len(files) = last.started
             /\ files[Len(files)].trailer = "failed"
             /\ ~files[Len(files)].open /\ oc.pb = "closed" /\ ~oc.priv_data
             /\ obs.submits \notin WrittenPackets
             /\ seg.frame_count = last.frame_count
    /\ (Rotated /\ last.fault # "write_trailer" /\ phase # "crashed")
          => ~files[last.started].open
    /\ (last.op = "close" /\ last.phase = "live")
          => /\ phase = "closed"
             /\ ~files[Len(files)].open /\ oc.pb = "closed" /\ ~oc.priv_data
             /\ last.fault = "write_trailer" => ret < 0

\* a rotation whose trailer write failed, after a packet went into the segment
C17_Witness ==
    /\ last.op = "submit" /\ last.fault = "write_trailer"
    /\ Len(files) = 1 /\ files[1].pkts # << >> /\ ~files[1].open

\* C18: in every sequence of operations, failure paths included, a close is
\* only ever issued on a sink that is open at that moment: no sink is closed
\* twice and none is closed that was never opened.
C18_CloseOnlyOpenSinks == ~obs.badClose

\* C19: with a valid-frames list no listed value is skipped: for every listed
\* v > 0, when the video packet with video frame count v is submitted to a live
\* session, the cursor's value next_valid_frame at the frame test equals v (the
\* cursor is not moved after the test), whatever the interleaving of video and
\* other packets.
C19_NoListedFrameSkipped ==
    (StrictlyAscending /\ last.op = "submit" /\ last.phase = "live"
        /\ LastIsVideo /\ last.frame_count > 0
        /\ last.frame_count \in ListedFrames)
        => seg.next_valid_frame = last.frame_count

\* packets (numbered in submission order) lie in the segments in that order,
\* each at one place only
InSubmissionOrder ==
    \A k1, k2 \in DOMAIN files :
      \A j1 \in DOMAIN files[k1].pkts, j2 \in DOMAIN files[k2].pkts :
        (k1 < k2 \/ (k1 = k2 /\ j1 < j2)) => files[k1].pkts[j1] < files[k2].pkts[j2]

\* C20: every packet accepted by a successful submit is written to exactly one
\* segment, the one open when submit returns, and the packets lie in the
\* segments in submission order; the packet that triggers a rotation is the
\* first one written to the new segment, so with a video stream the first
\* packet of every segment but the first is a video key frame.
C20_PacketsInOrderInOpenSegment ==
    /\ InSubmissionOrder
    /\ (last.op = "submit" /\ phase = "live")
          => /\ ret = 0
             /\ files[Len(files)].open
             /\ files[Len(files)].pkts # << >>
             /\ files[Len(files)].pkts[Len(files[Len(files)].pkts)] = obs.submits
    /\ (last.op = "submit" /\ phase # "live") => obs.submits \notin WrittenPackets
    /\ (Rotated /\ phase = "live")
          => /\ Len(files) = last.started + 1
             /\ files[Len(files)].pkts = << obs.submits >>
    /\ HasVideoStream
          => \A k \in DOMAIN files :
               (k > 1 /\ files[k].pkts # << >>) => files[k].first = "video_key"

\* a second rotation, after two packets went into the second segment
C20_Witness ==
    /\ Rotated /\ phase = "live"
    /\ Len(files) = 3 /\ Len(files[2].pkts) = 2
    /\ files[3].pkts = << obs.submits >> /\ files[3].first = "video_key"

====
